---------------------------- MODULE Spec2Model ----------------------------
(***************************************************************************)
(* Library Inventory Manager (book.py): the Book class, the                *)
(* LibraryInventory class with its JSON catalog file, and the menu loop of  *)
(* main().                                                                 *)
(*                                                                         *)
(* A text is a sequence of one-character strings, so that str.lower() and  *)
(* the substring test of search_by_title are computed character by         *)
(* character.  Authors, isbns and statuses are only ever compared for      *)
(* equality and are kept as strings.                                       *)
(*                                                                         *)
(* The catalog file is modelled by what json.load makes of it:             *)
(*   exists = FALSE                 no file at file_path                   *)
(*   kind = "garbage"               text json.load cannot parse (also an   *)
(*                                  empty or half-written file)            *)
(*   kind = "nonseq"                a JSON value that is not an array of   *)
(*                                  objects (a number, null)               *)
(*   kind = "array"                 a JSON array; items are its objects,   *)
(*                                  each a function from its keys          *)
(* The operating system may fail an open() or a write(); both classes of   *)
(* failure are caught by the code and are an input of the actions.         *)
(***************************************************************************)
EXTENDS Naturals, Sequences, FiniteSets

VARIABLES pc, books, file, out

vars == <<pc, books, file, out>>

-----------------------------------------------------------------------------
(* Bounds *)

\* Longest in-memory catalog.
MaxBooks == 2

-----------------------------------------------------------------------------
(* Values *)

RECURSIVE SeqsUpTo(_, _)
SeqsUpTo(S, n) ==
    IF n = 0 THEN {<<>>}
    ELSE LET shorter == SeqsUpTo(S, n - 1)
         IN  shorter \cup {Append(s, x) : s \in {t \in shorter : Len(t) = n - 1}, x \in S}

Keys == {"title", "author", "isbn", "status"}

\* What the user types at the prompts of main().
InputTitles == {<<"W", "a">>, <<"a">>}
InputAuthors == {"x"}
InputIsbns == {"1", "2"}
\* Title substrings typed at the Search prompt of main().
InputQueries == {<<>>, <<"w">>, <<"A", "w">>}
\* Title substrings handed to search_by_title directly.
Queries == {<<>>, <<"w">>, <<"A">>, <<"w", "A">>, <<"W", "a">>, <<"a", "a">>}
\* An isbn typed at the Issue / Return / search prompt; "3" is in no catalog.
AskedIsbns == InputIsbns \cup {"3"}

\* JSON objects found in a catalog file that this program did not
\* necessarily write itself.
ObjAvailable ==
    [title |-> <<"W", "a">>, author |-> "x", isbn |-> "1", status |-> "available"]
ObjIssued ==
    [title |-> <<"a", "W">>, author |-> "x", isbn |-> "1", status |-> "issued"]
ObjLost ==
    [title |-> <<"a">>, author |-> "x", isbn |-> "2", status |-> "lost"]
ObjNoStatus ==
    [title |-> <<"a">>, author |-> "x", isbn |-> "2"]
ObjNoTitle ==
    [author |-> "x", isbn |-> "2", status |-> "available"]
ObjExtraKey ==
    [title |-> <<"w">>, author |-> "x", isbn |-> "2", status |-> "available",
     year |-> "1999"]

NoFile == [exists |-> FALSE, kind |-> "none", items |-> <<>>]
Garbage == [exists |-> TRUE, kind |-> "garbage", items |-> <<>>]
NonSeq == [exists |-> TRUE, kind |-> "nonseq", items |-> <<>>]
Array(items) == [exists |-> TRUE, kind |-> "array", items |-> items]

\* The catalog files main() may find when it starts.
InitFiles ==
    { NoFile, Garbage, NonSeq,
      Array(<<>>),
      Array(<<ObjAvailable>>),
      Array(<<ObjIssued, ObjAvailable>>),
      Array(<<ObjAvailable, ObjIssued>>),
      Array(<<ObjLost>>),
      Array(<<ObjExtraKey>>),
      Array(<<ObjNoStatus>>),
      Array(<<ObjAvailable, ObjNoStatus>>),
      Array(<<ObjNoTitle, ObjIssued>>) }

\* Outcomes of the open(..., "w") / json.dump of save_books, and of the
\* open(..., "r") / json.load of load_books.
WriteOutcomes == {"ok", "open_failed", "write_failed"}
ReadOutcomes == {"ok", "read_failed"}

-----------------------------------------------------------------------------
(* class Book *)

Book(title, author, isbn, status) ==
    [title |-> title, author |-> author, isbn |-> isbn, status |-> status]

\* Mutant of issue: the status test is missing.
issue_unguarded(b) ==
    [book |-> [b EXCEPT !.status = "issued"], ret |-> TRUE]

\* Book.issue: the book afterwards and the value returned.
issue(b) ==
    IF b.status = "available"
    THEN [book |-> [b EXCEPT !.status = "issued"], ret |-> TRUE]
    ELSE [book |-> b, ret |-> FALSE]

\* Book.return_book: the book afterwards and the value returned.
return_book(b) ==
    IF b.status = "issued"
    THEN [book |-> [b EXCEPT !.status = "available"], ret |-> TRUE]
    ELSE [book |-> b, ret |-> FALSE]

is_available(b) == b.status = "available"

to_dict(b) ==
    [title |-> b.title, author |-> b.author, isbn |-> b.isbn, status |-> b.status]

\* data["k"] raises KeyError when the key is absent.
from_dict_raises(data) == ~(Keys \subseteq DOMAIN data)

\* Mutant of from_dict: status is not passed on, so Book.__init__ uses its
\* default.
from_dict_default_status(data) ==
    Book(data["title"], data["author"], data["isbn"], "available")

from_dict(data) == Book(data["title"], data["author"], data["isbn"], data["status"])

-----------------------------------------------------------------------------
(* class LibraryInventory *)

\* The Book objects of the list comprehension [b.to_dict() for b in self.books].
Dicts(bs) == [i \in 1..Len(bs) |-> to_dict(bs[i])]

\* save_books: the file afterwards.  w is what the operating system does
\* with the write: "open_failed" leaves the path as it was, "write_failed"
\* leaves a truncated file behind (open(..., "w") truncates before json.dump
\* writes).  Either exception is logged and swallowed.
save_books(bs, f, w) ==
    CASE w = "ok" -> Array(Dicts(bs))
      [] w = "open_failed" -> f
      [] w = "write_failed" -> Garbage

\* Whether the try block of load_books raises on an existing file.
load_raises(f, r) ==
    \/ r = "read_failed"
    \/ f.kind = "garbage"
    \/ f.kind = "nonseq"
    \/ \E i \in 1..Len(f.items) : from_dict_raises(f.items[i])

\* Mutant of load_books: a record that cannot be converted is skipped
\* instead of failing the whole load.
load_books_skip_bad(f, r, w) ==
    IF f.exists
    THEN IF r = "read_failed" \/ f.kind # "array"
         THEN [books |-> <<>>, file |-> f, save |-> "none", read |-> r, raised |-> TRUE]
         ELSE LET Complete(d) == ~from_dict_raises(d)
                  good == SelectSeq(f.items, Complete)
              IN  [books |-> [i \in 1..Len(good) |-> from_dict(good[i])],
                   file |-> f, save |-> "none", read |-> r, raised |-> FALSE]
    ELSE [books |-> <<>>, file |-> save_books(<<>>, f, w), save |-> w,
          read |-> "none", raised |-> FALSE]

\* Mutant of load_books: the empty catalog is not written when no file
\* exists.
load_books_no_create(f, r, w) ==
    IF f.exists
    THEN IF load_raises(f, r)
         THEN [books |-> <<>>, file |-> f, save |-> "none", read |-> r, raised |-> TRUE]
         ELSE [books |-> [i \in 1..Len(f.items) |-> from_dict(f.items[i])],
               file |-> f, save |-> "none", read |-> r, raised |-> FALSE]
    ELSE [books |-> <<>>, file |-> f, save |-> "none", read |-> "none",
          raised |-> FALSE]

\* load_books: the books and the file afterwards, and which of the two
\* outcomes were consumed (save / read are "none" when no write / read
\* took place).
load_books(f, r, w) ==
    IF f.exists
    THEN IF load_raises(f, r)
         THEN [books |-> <<>>, file |-> f, save |-> "none", read |-> r, raised |-> TRUE]
         ELSE [books |-> [i \in 1..Len(f.items) |-> from_dict(f.items[i])],
               file |-> f, save |-> "none", read |-> r, raised |-> FALSE]
    ELSE [books |-> <<>>, file |-> save_books(<<>>, f, w), save |-> w,
          read |-> "none", raised |-> FALSE]

\* Mutant of add_book: the catalog is saved before the book is appended.
add_book_save_first(bs, f, book, w) ==
    [books |-> Append(bs, book), file |-> save_books(bs, f, w)]

\* Mutant of add_book: the book is inserted at the front.
add_book_front(bs, f, book, w) ==
    LET bs2 == <<book>> \o bs
    IN  [books |-> bs2, file |-> save_books(bs2, f, w)]

\* add_book: the books and the file afterwards.
add_book(bs, f, book, w) ==
    LET bs2 == Append(bs, book)
    IN  [books |-> bs2, file |-> save_books(bs2, f, w)]

\* The for loop of search_by_isbn from position i on; a Book object is
\* identified by its position in self.books, 0 stands for None.
RECURSIVE isbn_scan(_, _, _)
isbn_scan(bs, isbn, i) ==
    IF i > Len(bs) THEN 0
    ELSE IF bs[i].isbn = isbn THEN i
    ELSE isbn_scan(bs, isbn, i + 1)

\* Mutant of search_by_isbn: the last match is returned.
search_by_isbn_last(bs, isbn) ==
    LET m == {j \in 1..Len(bs) : bs[j].isbn = isbn}
    IN  IF m = {} THEN 0 ELSE CHOOSE j \in m : \A k \in m : k <= j

search_by_isbn(bs, isbn) == isbn_scan(bs, isbn, 1)

\* str.lower() on the model's alphabet.
lower_char(c) ==
    CASE c = "W" -> "w"
      [] c = "A" -> "a"
      [] OTHER -> c

lower(s) == [i \in 1..Len(s) |-> lower_char(s[i])]

\* Python's `needle in hay` for strings.
contains(needle, hay) ==
    \E k \in 0..Len(hay) :
        /\ k + Len(needle) <= Len(hay)
        /\ SubSeq(hay, k + 1, k + Len(needle)) = needle

\* The list comprehension of search_by_title from position i on: the
\* positions of the Book objects it returns, in the order it returns them.
RECURSIVE title_scan(_, _, _)
title_scan(bs, title, i) ==
    IF i > Len(bs) THEN <<>>
    ELSE IF contains(lower(title), lower(bs[i].title))
         THEN <<i>> \o title_scan(bs, title, i + 1)
         ELSE title_scan(bs, title, i + 1)

\* Mutant of search_by_title: the comparison is case-sensitive.
search_by_title_case_sensitive(bs, title) ==
    LET Hit(i) == contains(title, bs[i].title)
    IN  SelectSeq([i \in 1..Len(bs) |-> i], Hit)

search_by_title(bs, title) == title_scan(bs, title, 1)

\* display_all returns self.books itself: every position, in order.
display_all(bs) == [i \in 1..Len(bs) |-> i]

-----------------------------------------------------------------------------
(* What the last operation reported: the operation, its inputs, the value  *)
(* a search returned, the value Book.issue / return_book returned, the     *)
(* line printed, and the outcomes of the write and the read it performed.  *)

NoOut ==
    [op |-> "none", isbn |-> "", query |-> <<>>, idx |-> 0, hits |-> <<>>,
     ret |-> FALSE, msg |-> "", save |-> "none", read |-> "none"]

-----------------------------------------------------------------------------
(* main() *)

Init ==
    /\ pc = "start"
    /\ books = <<>>
    /\ file \in InitFiles
    /\ out = NoOut

\* inventory = LibraryInventory()
Construct(r, w) ==
    /\ pc = "start"
    /\ LET l == load_books(file, r, w)
       IN  /\ books' = l.books
           /\ file' = l.file
           /\ out' = [NoOut EXCEPT !.op = "construct", !.save = l.save,
                                   !.read = l.read, !.ret = l.raised]
    /\ pc' = "menu"

\* choice == "1"
MenuAdd(title, author, isbn, w) ==
    /\ pc = "menu"
    /\ Len(books) < MaxBooks
    /\ LET a == add_book(books, file, Book(title, author, isbn, "available"), w)
       IN  /\ books' = a.books
           /\ file' = a.file
    /\ out' = [NoOut EXCEPT !.op = "add", !.isbn = isbn, !.save = w,
                            !.msg = "Book added successfully!"]
    /\ pc' = pc

\* choice == "2"
MenuIssue(isbn, w) ==
    /\ pc = "menu"
    /\ LET i == search_by_isbn(books, isbn)
           found == i # 0
           res == IF found THEN issue(books[i]) ELSE [ret |-> FALSE]
       IN  IF found /\ res.ret
           THEN /\ books' = [books EXCEPT ![i] = res.book]
                /\ file' = save_books(books', file, w)
                /\ out' = [NoOut EXCEPT !.op = "issue", !.isbn = isbn, !.idx = i,
                                        !.ret = TRUE, !.save = w,
                                        !.msg = "Book issued successfully!"]
           ELSE /\ UNCHANGED <<books, file>>
                /\ out' = [NoOut EXCEPT !.op = "issue", !.isbn = isbn, !.idx = i,
                                        !.msg = "Book not available or not found."]
    /\ pc' = pc

\* choice == "3"
MenuReturn(isbn, w) ==
    /\ pc = "menu"
    /\ LET i == search_by_isbn(books, isbn)
           found == i # 0
           res == IF found THEN return_book(books[i]) ELSE [ret |-> FALSE]
       IN  IF found /\ res.ret
           THEN /\ books' = [books EXCEPT ![i] = res.book]
                /\ file' = save_books(books', file, w)
                /\ out' = [NoOut EXCEPT !.op = "return", !.isbn = isbn, !.idx = i,
                                        !.ret = TRUE, !.save = w,
                                        !.msg = "Book returned successfully!"]
           ELSE /\ UNCHANGED <<books, file>>
                /\ out' = [NoOut EXCEPT !.op = "return", !.isbn = isbn, !.idx = i,
                                        !.msg = "Cannot return book or book not found."]
    /\ pc' = pc

\* choice == "4"
MenuView ==
    /\ pc = "menu"
    /\ LET bs == display_all(books)
       IN  out' = [NoOut EXCEPT !.op = "view", !.hits = bs,
                                !.msg = IF bs = <<>> THEN "No books in catalog." ELSE ""]
    /\ UNCHANGED <<pc, books, file>>

\* choice == "5"
MenuSearch(title) ==
    /\ pc = "menu"
    /\ LET results == search_by_title(books, title)
       IN  out' = [NoOut EXCEPT !.op = "search", !.query = title, !.hits = results,
                                !.msg = IF results = <<>> THEN "No books found." ELSE ""]
    /\ UNCHANGED <<pc, books, file>>

\* choice == "6"
MenuExit ==
    /\ pc = "menu"
    /\ pc' = "exit"
    /\ out' = [NoOut EXCEPT !.op = "exit", !.msg = "Exiting... Goodbye!"]
    /\ UNCHANGED <<books, file>>

\* any other choice
MenuInvalid ==
    /\ pc = "menu"
    /\ out' = [NoOut EXCEPT !.op = "invalid", !.msg = "Invalid choice. Please select 1-6."]
    /\ UNCHANGED <<pc, books, file>>

Next ==
    \/ \E r \in ReadOutcomes, w \in WriteOutcomes : Construct(r, w)
    \/ \E t \in InputTitles, a \in InputAuthors, i \in InputIsbns, w \in WriteOutcomes :
           MenuAdd(t, a, i, w)
    \/ \E i \in AskedIsbns, w \in WriteOutcomes : MenuIssue(i, w)
    \/ \E i \in AskedIsbns, w \in WriteOutcomes : MenuReturn(i, w)
    \/ MenuView
    \/ \E q \in InputQueries : MenuSearch(q)
    \/ MenuExit
    \/ MenuInvalid

Spec == Init /\ [][Next]_vars

-----------------------------------------------------------------------------
(* A caller of the two classes: any inventory content, any calls of       *)
(* Book.issue, Book.return_book and the two searches on it, and last a     *)
(* save_books followed by load_books.                                      *)

\* Books a caller may have constructed (Book.__init__ accepts any status).
ApiBooks ==
    { Book(<<"W", "a">>, "x", "1", "available"),
      Book(<<"a", "W">>, "x", "1", "issued"),
      Book(<<"W", "a">>, "x", "2", "issued"),
      Book(<<"a">>, "x", "2", "lost"),
      Book(<<"a">>, "x", "1", "available") }

InitAPI ==
    /\ pc = "api"
    /\ books \in SeqsUpTo(ApiBooks, MaxBooks)
    /\ file \in {NoFile, Array(<<ObjAvailable>>)}
    /\ out = NoOut

\* inventory.books[i].issue()
ApiIssue(i) ==
    /\ pc = "api"
    /\ LET res == issue(books[i])
       IN  /\ books' = [books EXCEPT ![i] = res.book]
           /\ out' = [NoOut EXCEPT !.op = "issue", !.idx = i, !.ret = res.ret]
    /\ UNCHANGED <<pc, file>>

\* inventory.books[i].return_book()
ApiReturn(i) ==
    /\ pc = "api"
    /\ LET res == return_book(books[i])
       IN  /\ books' = [books EXCEPT ![i] = res.book]
           /\ out' = [NoOut EXCEPT !.op = "return", !.idx = i, !.ret = res.ret]
    /\ UNCHANGED <<pc, file>>

\* inventory.search_by_isbn(isbn)
ApiSearchIsbn(isbn) ==
    /\ pc = "api"
    /\ out' = [NoOut EXCEPT !.op = "search_isbn", !.isbn = isbn,
                            !.idx = search_by_isbn(books, isbn)]
    /\ UNCHANGED <<pc, books, file>>

\* inventory.search_by_title(title)
ApiSearchTitle(title) ==
    /\ pc = "api"
    /\ out' = [NoOut EXCEPT !.op = "search", !.query = title,
                            !.hits = search_by_title(books, title)]
    /\ UNCHANGED <<pc, books, file>>

\* inventory.save_books(); inventory.load_books()
\* w2 is the outcome of the write load_books itself makes when it finds no
\* file (the first write could not create it).
ApiSaveLoad(w, r, w2) ==
    /\ pc = "api"
    /\ LET saved == save_books(books, file, w)
           l == load_books(saved, r, w2)
       IN  /\ books' = l.books
           /\ file' = l.file
           /\ out' = [NoOut EXCEPT !.op = "roundtrip", !.save = w, !.read = l.read]
    /\ pc' = "done"

NextAPI ==
    \/ \E i \in 1..Len(books) : ApiIssue(i)
    \/ \E i \in 1..Len(books) : ApiReturn(i)
    \/ \E i \in AskedIsbns : ApiSearchIsbn(i)
    \/ \E q \in Queries : ApiSearchTitle(q)
    \/ \E w \in WriteOutcomes, r \in ReadOutcomes, w2 \in WriteOutcomes :
           ApiSaveLoad(w, r, w2)

SpecAPI == InitAPI /\ [][NextAPI]_vars

-----------------------------------------------------------------------------
(* Properties of main() *)

Statuses == {"available", "issued"}

\* The file holds a JSON array whose i-th object has exactly the four keys
\* of a book record, with the values of the i-th book in memory.
FileMatchesBooks ==
    /\ file.exists
    /\ file.kind = "array"
    /\ Len(file.items) = Len(books)
    /\ \A i \in 1..Len(books) :
           /\ DOMAIN file.items[i] = Keys
           /\ file.items[i]["title"] = books[i].title
           /\ file.items[i]["author"] = books[i].author
           /\ file.items[i]["isbn"] = books[i].isbn
           /\ file.items[i]["status"] = books[i].status

\* An existing file that cannot be read as a sequence of complete records.
Malformed(f) ==
    /\ f.exists
    /\ \/ f.kind \in {"garbage", "nonseq"}
       \/ \E i \in 1..Len(f.items) : \E k \in Keys : k \notin DOMAIN f.items[i]

Ident(b) == <<b.title, b.author, b.isbn>>

\* C1: every book held by the inventory has status available or issued.
\* The code copies data["status"] unchecked, so a catalog file naming any
\* other status loads successfully and breaks this.
C1_StatusIsEnum ==
    \A i \in 1..Len(books) : books[i].status \in Statuses

\* C3 as claimed: after Add Book, Issue Book or Return Book completes, the
\* records in the file equal the books in memory, in order.
C3_FileMatchesAfterMutation ==
    out.op \in {"add", "issue", "return"} => FileMatchesBooks

\* C3 as amended: after add_book, and after an Issue Book or Return Book
\* that reported success (the only ones that save), the records in the file
\* equal the books in memory whenever the write did not fail.
C3_FileMatchesAfterGoodSave ==
    (out.op \in {"add", "issue", "return"} /\ out.save = "ok") => FileMatchesBooks

C3_Witness ==
    /\ out.op = "issue"
    /\ out.save = "ok"
    /\ Len(books) = 2
    /\ books[1].status = "issued"
    /\ FileMatchesBooks

\* C5: constructing the inventory on an existing file that is unparseable,
\* not a sequence, or has a record without one of the four keys leaves
\* books empty and reaches the menu (nothing is raised to the caller).
C5_MalformedLoadsEmpty ==
    [][(pc = "start" /\ Malformed(file)) =>
           (books' = <<>> /\ pc' = "menu" /\ file' = file)]_vars

C5_Witness ==
    /\ out.op = "construct"
    /\ out.read = "ok"
    /\ file = Array(<<ObjAvailable, ObjNoStatus>>)
    /\ books = <<>>
    /\ pc = "menu"

\* C6 as claimed: constructing the inventory where no file exists yields
\* empty books and leaves a file holding the empty catalog.
C6_CreatesEmptyCatalog ==
    [][(pc = "start" /\ ~file.exists) =>
           (books' = <<>> /\ file' = Array(<<>>))]_vars

\* C6 as amended: constructing the inventory where no file exists yields
\* empty books and one attempt to write the empty catalog; the file holds
\* the empty catalog exactly when that write succeeds (a failed write is
\* swallowed).
C6_CreatesEmptyCatalogIfWritable ==
    [][(pc = "start" /\ ~file.exists) =>
           /\ books' = <<>>
           /\ pc' = "menu"
           /\ out'.save \in WriteOutcomes
           /\ (out'.save = "ok") <=> (file' = Array(<<>>))]_vars

C6_Witness ==
    /\ out.op = "construct"
    /\ out.save = "ok"
    /\ books = <<>>
    /\ file = Array(<<>>)

\* C9: Issue Book reports success exactly when some book with the typed
\* isbn is available, and Return Book exactly when some book with the typed
\* isbn is issued.  The code looks only at the first book with that isbn.
C9_IssueReturnByIsbn ==
    [][pc = "menu" =>
         /\ out'.op = "issue" =>
              ((out'.msg = "Book issued successfully!") <=>
                  \E i \in 1..Len(books) :
                      books[i].isbn = out'.isbn /\ books[i].status = "available")
         /\ out'.op = "return" =>
              ((out'.msg = "Book returned successfully!") <=>
                  \E i \in 1..Len(books) :
                      books[i].isbn = out'.isbn /\ books[i].status = "issued")]_vars

\* C10: once the menu runs, every step keeps the earlier books, compared on
\* title, author and isbn, as a prefix of the later ones; only Add Book
\* lengthens the sequence, by one available book at the end carrying the
\* typed isbn, whether or not that isbn is already present.
C10_BooksOnlyGrowAtEnd ==
    [][pc = "menu" =>
         /\ Len(books') >= Len(books)
         /\ \A i \in 1..Len(books) : Ident(books'[i]) = Ident(books[i])
         /\ Len(books') # Len(books) => out'.op = "add"
         /\ out'.op = "add" =>
              /\ Len(books') = Len(books) + 1
              /\ books'[Len(books')].status = "available"
              /\ books'[Len(books')].isbn = out'.isbn]_vars

C10_Witness ==
    /\ out.op = "add"
    /\ Len(books) = 2
    /\ books[1].isbn = books[2].isbn
    /\ books[1].title # books[2].title
    /\ books[1].status = "issued"

-----------------------------------------------------------------------------
(* Properties of the classes *)

\* C2: issue() on an available book returns True and leaves it issued,
\* return_book() on an issued book returns True and leaves it available,
\* every other call returns False and leaves the book as it was; and no
\* step changes the status of a book in any other way (load_books replaces
\* self.books by newly made Book objects and changes none).
C2_OnlyGuardedTransitions ==
    [][/\ out'.op = "issue" =>
            IF books[out'.idx].status = "available"
            THEN out'.ret /\ books'[out'.idx].status = "issued"
            ELSE ~out'.ret /\ books' = books
       /\ out'.op = "return" =>
            IF books[out'.idx].status = "issued"
            THEN out'.ret /\ books'[out'.idx].status = "available"
            ELSE ~out'.ret /\ books' = books
       /\ \A i \in 1..Len(books) :
            (out'.op # "roundtrip" /\ books'[i].status # books[i].status) =>
                /\ Ident(books'[i]) = Ident(books[i])
                /\ out'.idx = i
                /\ \/ /\ out'.op = "issue"
                      /\ books[i].status = "available"
                      /\ books'[i].status = "issued"
                   \/ /\ out'.op = "return"
                      /\ books[i].status = "issued"
                      /\ books'[i].status = "available"]_vars

C2_Witness ==
    /\ out.op = "issue"
    /\ ~out.ret
    /\ books[out.idx].status = "issued"
    /\ \E j \in 1..Len(books) : books[j].status = "lost"

\* C4 as claimed: save_books followed by load_books yields the books it
\* started from, in length, order and every field.
C4_RoundTrip ==
    [][out'.op = "roundtrip" => books' = books]_vars

\* C4 as amended: save_books followed by load_books yields the books it
\* started from, in length, order and every field, provided the write and
\* the read both succeed (either failure is swallowed).
C4_RoundTripIfIoSucceeds ==
    [][(out'.op = "roundtrip" /\ out'.save = "ok" /\ out'.read = "ok") =>
           books' = books]_vars

C4_Witness ==
    /\ out.op = "roundtrip"
    /\ out.save = "ok"
    /\ out.read = "ok"
    /\ Len(books) = 2
    /\ books[1].isbn = books[2].isbn
    /\ books[1].status = "issued"
    /\ FileMatchesBooks

\* The positions of the books whose isbn is the one asked for.
IsbnMatches == {j \in 1..Len(books) : books[j].isbn = out.isbn}

C7_Post ==
    out.op = "search_isbn" =>
        IF IsbnMatches = {}
        THEN out.idx = 0
        ELSE out.idx \in IsbnMatches /\ \A j \in IsbnMatches : out.idx <= j

\* C7: search_by_isbn returns the first book in stored order whose isbn
\* equals the argument, None when there is none, and changes nothing.
C7_SearchByIsbnFirstMatch ==
    [][out'.op = "search_isbn" =>
           (C7_Post' /\ books' = books /\ file' = file)]_vars

C7_Witness ==
    /\ out.op = "search_isbn"
    /\ out.idx = 1
    /\ Len(books) = 2
    /\ books[2].isbn = out.isbn

\* Two letters that differ at most in case.
SameLetter(c, d) == c = d \/ {c, d} \in {{"w", "W"}, {"a", "A"}}

\* s occurs in t as a substring when letter case is ignored.
OccursIgnoringCase(s, t) ==
    \E k \in 0..Len(t) :
        /\ k + Len(s) <= Len(t)
        /\ \A j \in 1..Len(s) : SameLetter(s[j], t[k + j])

\* C8: search_by_title returns exactly the books whose title contains the
\* argument as a substring, ignoring case, in stored order (so an empty
\* result when none does).
C8_SearchByTitle ==
    out.op = "search" =>
        /\ \A a, b \in 1..Len(out.hits) : a < b => out.hits[a] < out.hits[b]
        /\ {out.hits[a] : a \in 1..Len(out.hits)} =
               {i \in 1..Len(books) : OccursIgnoringCase(out.query, books[i].title)}

C8_Witness ==
    /\ out.op = "search"
    /\ out.query = <<"w", "A">>
    /\ Len(books) = 2
    /\ books[1].title = <<"a", "W">>
    /\ books[2].title = <<"W", "a">>
    /\ out.hits = <<2>>

=============================================================================
